---------------------------- MODULE Spec2Model ----------------------------
(***************************************************************************)
(* Screenshot Scheduler Pro (src/main.py): the configuration store, the    *)
(* job registry kept by the background scheduler, the single capture lock  *)
(* of ScreenshotCapture, and the threads that run capture_wrapper (one per *)
(* scheduled fire) and run_capture.capture (one per manual trigger).       *)
(* The threads are kept as a bag: a thread has no name, only its code      *)
(* position and its locals.                                                *)
(*                                                                         *)
(* Text is modelled as a sequence of one-character strings, so splitting,  *)
(* int() and f-string formatting are computed, not assumed.                *)
(***************************************************************************)
EXTENDS Integers, Sequences, FiniteSets, Bags, TLC

(***************************************************************************)
(* Bounds of the exploration.                                              *)
(***************************************************************************)
MaxThreads == 2        \* capture threads alive at once
MaxAdds == 1           \* tasks created through the form in one run
MaxCfgLen == 3         \* tasks in the list of a ConfigManager under test

(***************************************************************************)
(* Sizes fixed by the source.                                              *)
(***************************************************************************)
HourCount == 24        \* hour menu: range(24)
MinuteCount == 60      \* minute menu: range(60)

(***************************************************************************)
(* Text helpers.                                                           *)
(***************************************************************************)
Digits == {"0", "1", "2", "3", "4", "5", "6", "7", "8", "9"}

DigitVal(c) ==
    CASE c = "0" -> 0 [] c = "1" -> 1 [] c = "2" -> 2 [] c = "3" -> 3
      [] c = "4" -> 4 [] c = "5" -> 5 [] c = "6" -> 6 [] c = "7" -> 7
      [] c = "8" -> 8 [] c = "9" -> 9

DigitChar(d) ==
    CASE d = 0 -> "0" [] d = 1 -> "1" [] d = 2 -> "2" [] d = 3 -> "3"
      [] d = 4 -> "4" [] d = 5 -> "5" [] d = 6 -> "6" [] d = 7 -> "7"
      [] d = 8 -> "8" [] d = 9 -> "9"

AllDigits(s) == Len(s) > 0 /\ \A i \in 1..Len(s) : s[i] \in Digits

RECURSIVE DecVal(_)
DecVal(s) == IF s = <<>> THEN 0
             ELSE 10 * DecVal(SubSeq(s, 1, Len(s) - 1)) + DigitVal(s[Len(s)])

\* str.strip(): drop leading and trailing blanks
RECURSIVE Strip(_)
Strip(s) == IF s = <<>> THEN s
            ELSE IF s[1] = " " THEN Strip(Tail(s))
            ELSE IF s[Len(s)] = " " THEN Strip(SubSeq(s, 1, Len(s) - 1))
            ELSE s

\* int(text): optional surrounding blanks, optional sign, decimal digits
PyIntOk(s) ==
    LET t == Strip(s) IN
    /\ t # <<>>
    /\ IF t[1] \in {"-", "+"} THEN AllDigits(Tail(t)) ELSE AllDigits(t)

PyInt(s) ==
    LET t == Strip(s) IN
    IF t[1] = "-" THEN 0 - DecVal(Tail(t))
    ELSE IF t[1] = "+" THEN DecVal(Tail(t))
    ELSE DecVal(t)

\* str(n) of a non-negative integer: decimal, no leading zeros
RECURSIVE NatToStr(_)
NatToStr(n) == IF n < 10 THEN <<DigitChar(n)>>
               ELSE NatToStr(n \div 10) \o <<DigitChar(n % 10)>>

\* str.split(): the maximal blank-free runs, in order
RECURSIVE SplitFrom(_, _, _)
SplitFrom(s, cur, acc) ==
    IF s = <<>> THEN (IF cur = <<>> THEN acc ELSE Append(acc, cur))
    ELSE IF s[1] = " "
         THEN SplitFrom(Tail(s), <<>>, IF cur = <<>> THEN acc ELSE Append(acc, cur))
         ELSE SplitFrom(Tail(s), Append(cur, s[1]), acc)

Split(s) == SplitFrom(s, <<>>, <<>>)

\* first position of character c in s, 0 when absent
IndexOf(s, c) ==
    IF \E i \in 1..Len(s) : s[i] = c
    THEN CHOOSE i \in 1..Len(s) : s[i] = c /\ \A k \in 1..(i - 1) : s[k] # c
    ELSE 0

\* re.split(","): the pieces between commas (empty pieces kept)
RECURSIVE SplitComma(_)
SplitComma(s) ==
    LET i == IndexOf(s, ",") IN
    IF i = 0 THEN <<s>>
    ELSE <<SubSeq(s, 1, i - 1)>> \o SplitComma(SubSeq(s, i + 1, Len(s)))


(***************************************************************************)
(* CronTrigger(minute, hour, day, month, day_of_week), as schedule_task    *)
(* calls it with the five tokens.  Every field is a comma-separated list   *)
(* of expressions: "*" or "*/step", "a", "a-b", "a-b/step", a month or     *)
(* weekday name (or a range of names) in the month and day_of_week fields, *)
(* "last" in the day field.  Anything else, and any number outside the     *)
(* field's range, raises ValueError.  Names are matched in lower case.     *)
(***************************************************************************)
FieldMin(f) == CASE f = 1 -> 0 [] f = 2 -> 0 [] f = 3 -> 1 [] f = 4 -> 1 [] f = 5 -> 0
FieldMax(f) == CASE f = 1 -> 59 [] f = 2 -> 23 [] f = 3 -> 31 [] f = 4 -> 12 [] f = 5 -> 6

MonthNames ==
    { <<"j","a","n">>, <<"f","e","b">>, <<"m","a","r">>, <<"a","p","r">>,
      <<"m","a","y">>, <<"j","u","n">>, <<"j","u","l">>, <<"a","u","g">>,
      <<"s","e","p">>, <<"o","c","t">>, <<"n","o","v">>, <<"d","e","c">> }

WeekdayNames ==
    { <<"m","o","n">>, <<"t","u","e">>, <<"w","e","d">>, <<"t","h","u">>,
      <<"f","r","i">>, <<"s","a","t">>, <<"s","u","n">> }

FieldNames(f) ==
    CASE f = 4 -> MonthNames
      [] f = 5 -> WeekdayNames
      [] f = 3 -> { <<"l","a","s","t">> }
      [] OTHER -> {}

\* one expression of field f
ExprOk(p, f) ==
    LET slash == IndexOf(p, "/")
        base  == IF slash = 0 THEN p ELSE SubSeq(p, 1, slash - 1)
        stepT == IF slash = 0 THEN <<>> ELSE SubSeq(p, slash + 1, Len(p))
        step  == IF AllDigits(stepT) THEN DecVal(stepT) ELSE 0
        dash  == IndexOf(base, "-")
        loT   == IF dash = 0 THEN base ELSE SubSeq(base, 1, dash - 1)
        hiT   == IF dash = 0 THEN <<>> ELSE SubSeq(base, dash + 1, Len(base))
    IN
    IF base = <<"*">>
    THEN slash = 0 \/ (AllDigits(stepT) /\ step >= 1 /\ step <= FieldMax(f) - FieldMin(f))
    ELSE IF AllDigits(loT) /\ (dash = 0 \/ AllDigits(hiT))
    THEN LET first == DecVal(loT)
             last  == IF dash # 0 THEN DecVal(hiT)
                      ELSE IF slash = 0 THEN first ELSE FieldMax(f)
         IN /\ slash = 0 \/ (AllDigits(stepT) /\ step >= 1 /\ step <= last - first)
            /\ first >= FieldMin(f)
            /\ last <= FieldMax(f)
            /\ first <= last
    ELSE /\ slash = 0
         /\ loT \in FieldNames(f)
         /\ dash = 0 \/ (f \in {4, 5} /\ hiT \in FieldNames(f))

FieldOk(tok, f) ==
    LET ps == SplitComma(tok) IN \A i \in 1..Len(ps) : ExprOk(ps[i], f)

CronTriggerOk(parts) == \A f \in 1..5 : FieldOk(parts[f], f)

(***************************************************************************)
(* Inputs: the cron texts a config.json may hold, and what the form's      *)
(* widgets may return.                                                     *)
(***************************************************************************)
EveryMinuteText == <<"*"," ","*"," ","*"," ","*"," ","*">>
EveryHourText   == <<"0"," ","*"," ","*"," ","*"," ","*">>
DailyText       == <<"0"," ","0"," ","*"," ","*"," ","*">>
WeeklyText      == <<"0"," ","0"," ","*"," ","*"," ","0">>
InvalidText     == <<"I","n","v","a","l","i","d">>

StepText        == <<"*","/","5"," ","*"," ","*"," ","*"," ","*">>
FourFieldText   == <<"0"," ","*"," ","*"," ","*">>
OutOfRangeText  == <<"6","1"," ","*"," ","*"," ","*"," ","*">>

\* the values of the schedule menu
ScheduleOptions == {"Every Minute", "Every Hour", "Daily", "Weekly", "Custom"}

\* what the form is filled with in the runs explored
OptionInputs == {"Custom"}
HourInputs   == { <<"0","7">>, <<"x">> }
MinuteInputs == { <<"3","0">> }
UrlInputs    == { <<"u"," ">> }
WidthInputs  == { <<"1","9","2","0">>, <<"w">> }
HeightInputs == { <<"1","0","8","0">> }

\* ScreenshotTask, with the payload fields the scheduler never reads left out
Task(id, cron, enabled) == [id |-> id, cron |-> cron, enabled |-> enabled]

\* the task lists found in config.json at start-up in the runs explored
ConfigFiles ==
    { << Task(1, EveryHourText, TRUE) >>,
      << Task(1, EveryHourText, FALSE) >>,
      << Task(1, StepText, TRUE) >>,
      << Task(1, FourFieldText, TRUE) >>,
      << Task(1, OutOfRangeText, TRUE) >> }

ConfigIds == UNION { { ts[i].id : i \in 1..Len(ts) } : ts \in ConfigFiles }

\* the ids uuid4 gives to the tasks the form creates: fresh ones
NewIds == { Cardinality(ConfigIds) + k : k \in 1..MaxAdds }

(***************************************************************************)
(* The schedule widgets of the form.                                       *)
(***************************************************************************)
\* f"{i:02d}"
TwoDigits(i) == <<DigitChar(i \div 10), DigitChar(i % 10)>>

\* the values the hour and the minute menu offer
HourValues == { TwoDigits(i) : i \in 0..(HourCount - 1) }
MinuteValues == { TwoDigits(i) : i \in 0..(MinuteCount - 1) }

\* the text in front of the expression on cron_preview_label
PreviewPrefix == <<"C","r","o","n",":"," ">>

\* the text update_cron_preview puts on cron_preview_label
update_cron_preview(option, hour, minute) ==
    PreviewPrefix \o
    (CASE option = "Every Minute" -> EveryMinuteText
       [] option = "Every Hour" -> EveryHourText
       [] option = "Daily" -> DailyText
       [] option = "Weekly" -> WeeklyText
       [] option = "Custom" ->
             IF PyIntOk(hour) /\ PyIntOk(minute)
             THEN NatToStr(PyInt(minute) % 60) \o <<" ">> \o NatToStr(PyInt(hour) % 24)
                    \o <<" ","*"," ","*"," ","*">>
             ELSE InvalidText
       [] OTHER -> <<>>)

Form(option, hour, minute, preview) ==
    [option |-> option, hour |-> hour, minute |-> minute, preview |-> preview]

\* init_ui sets the menus; __init__ sets the option again and refreshes the preview
InitialForm ==
    Form("Every Hour", TwoDigits(0), TwoDigits(0),
         update_cron_preview("Every Hour", TwoDigits(0), TwoDigits(0)))

\* no call has been made on the ConfigManager under test
NoCall == [op |-> "none", id |-> 0, before |-> <<>>]

(***************************************************************************)
(* State.                                                                  *)
(***************************************************************************)
VARIABLES
    tasks,       \* ConfigManager.config["tasks"], as saved
    jobs,        \* the jobs the scheduler holds; a job carries the task its closure captured
    schedState,  \* BackgroundScheduler.state
    lock,        \* ScreenshotCapture._capture_lock is held
    thr,         \* the bag of capture threads: executor workers and run_capture threads
    dialog,      \* the dialog the last form callback opened
    added,       \* tasks created through the form so far
    closePc,     \* where on_close is: inside shutdown(), or the exception that ended it
    form,        \* the schedule widgets: option menu, hour and minute menus, preview label
    cfgCall      \* the last call made on a ConfigManager under test: method, id, list before

vars == <<tasks, jobs, schedState, lock, thr, dialog, added, closePc, form, cfgCall>>

\* a thread running capture_wrapper (kind "sched") or run_capture.capture
\* (kind "manual"): its position, the task of its closure, and its locals
Thread(pc, kind, task, acquired, outcome) ==
    [pc |-> pc, kind |-> kind, task |-> task, acquired |-> acquired, outcome |-> outcome]

Running == BagToSet(thr)

TaskIds(ts) == { ts[i].id : i \in 1..Len(ts) }

\* the shape of the state
TypeOK ==
    /\ \A i \in 1..Len(tasks) : tasks[i].id \in ConfigIds \cup NewIds /\ tasks[i].enabled \in BOOLEAN
    /\ \A j \in jobs : j.id \in ConfigIds \cup NewIds /\ j.enabled
    /\ schedState \in {"running", "stopped"}
    /\ lock \in BOOLEAN
    /\ IsABag(thr)
    /\ BagCardinality(thr) <= MaxThreads
    /\ \A t \in Running :
          /\ t.pc \in {"acquire", "skipped", "capturing", "release", "done"}
          /\ t.kind \in {"sched", "manual"}
          /\ t.acquired \in BOOLEAN
          /\ t.outcome \in {"none", "succeeded", "failed", "raised"}
    /\ dialog \in {"none", "error", "success"}
    /\ added \in 0..MaxAdds
    /\ closePc \in {"none", "shutdown", "TypeError", "SchedulerNotRunningError"}
    /\ form.option \in ScheduleOptions
    /\ form.hour \in HourValues
    /\ form.minute \in MinuteValues
    /\ cfgCall.op \in {"none", "add_task", "remove_task"}

(***************************************************************************)
(* ConfigManager                                                           *)
(***************************************************************************)
ConfigAddTask(ts, task) == Append(ts, task)

\* a remove_task that only looks at the first stored task
ConfigRemoveHead(ts, id) ==
    IF ts # <<>> /\ Head(ts).id = id THEN Tail(ts) ELSE ts

\* tasks = [t for t in tasks if t.id != task_id]
ConfigRemoveTask(ts, id) == SelectSeq(ts, LAMBDA t : t.id # id)

(***************************************************************************)
(* App.get_cron_schedule                                                   *)
(***************************************************************************)
\* a get_cron_schedule that formats the menu texts as they are
get_cron_schedule_verbatim(option, hour, minute) ==
    CASE option = "Every Minute" -> EveryMinuteText
      [] option = "Every Hour" -> EveryHourText
      [] option = "Daily" -> DailyText
      [] option = "Weekly" -> WeeklyText
      [] option = "Custom" -> minute \o <<" ">> \o hour \o <<" ","*"," ","*"," ","*">>
      [] OTHER -> EveryHourText

get_cron_schedule(option, hour, minute) ==
    CASE option = "Every Minute" -> EveryMinuteText
      [] option = "Every Hour" -> EveryHourText
      [] option = "Daily" -> DailyText
      [] option = "Weekly" -> WeeklyText
      [] option = "Custom" ->
            IF PyIntOk(hour) /\ PyIntOk(minute)
            THEN NatToStr(PyInt(minute) % 60) \o <<" ">> \o NatToStr(PyInt(hour) % 24)
                   \o <<" ","*"," ","*"," ","*">>
            ELSE InvalidText
      [] OTHER -> EveryHourText

(***************************************************************************)
(* App.clear_task_inputs: the widgets after it.  A programmatic set() of a *)
(* menu does not run the menu's command; the preview is refreshed by the   *)
(* call at the end.                                                        *)
(***************************************************************************)
\* a clear_task_inputs without its last line
clear_task_inputs_stale ==
    Form("Every Hour", TwoDigits(0), TwoDigits(0), form.preview)

clear_task_inputs ==
    Form("Every Hour", TwoDigits(0), TwoDigits(0),
         update_cron_preview("Every Hour", TwoDigits(0), TwoDigits(0)))

(***************************************************************************)
(* App.schedule_task and App.load_scheduled_tasks                          *)
(***************************************************************************)
\* scheduler.add_job(..., id=task.id, replace_existing=True)
AddJob(js, task) == { j \in js : j.id # task.id } \cup {task}

\* the expression passes both the field count and CronTrigger
CronParses(cron) ==
    LET cron_parts == Split(cron) IN
    Len(cron_parts) = 5 /\ CronTriggerOk(cron_parts)

\* any exception is caught and printed: the job set is then unchanged
schedule_task(js, task) ==
    IF CronParses(task.cron) THEN AddJob(js, task) ELSE js

RECURSIVE load_scheduled_tasks(_, _)
load_scheduled_tasks(ts, js) ==
    IF ts = <<>> THEN js
    ELSE load_scheduled_tasks(Tail(ts),
                              IF Head(ts).enabled THEN schedule_task(js, Head(ts)) ELSE js)

(***************************************************************************)
(* Initial state: App.__init__ has built the widgets, loaded the stored    *)
(* tasks, registered a job for every enabled one and started the           *)
(* scheduler.                                                              *)
(***************************************************************************)
Init ==
    /\ tasks \in ConfigFiles
    /\ jobs = load_scheduled_tasks(tasks, {})
    /\ schedState = "running"
    /\ lock = FALSE
    /\ thr = EmptyBag
    /\ dialog = "none"
    /\ added = 0
    /\ closePc = "none"
    /\ form = InitialForm
    /\ cfgCall = NoCall

\* the Tk main thread is free to run a callback (it is not blocked inside on_close)
UiReady == closePc # "shutdown"

\* thread t has taken a step and is now u
Replace(t, u) == (thr (-) SetToBag({t})) (+) SetToBag({u})

\* threading.Thread(target=capture).start(), or the executor submitting capture_wrapper
StartThread(kind, task) ==
    /\ BagCardinality(thr) < MaxThreads
    /\ thr' = thr (+) SetToBag({Thread("acquire", kind, task, FALSE, "none")})

\* The thread function of t has returned.  A run_capture thread is gone; an
\* executor worker still has to report the run and free the job's instance.
Returned(t) ==
    IF t.kind = "sched" THEN Replace(t, [t EXCEPT !.pc = "done"])
    ELSE thr (-) SetToBag({t})

(***************************************************************************)
(* App.add_task                                                            *)
(***************************************************************************)
\* a form handler that only checks the URL
AddTaskAcceptsInvalid(url, cron) == url = <<>>

\* if not url or cron == "Invalid": show_error(...); return
AddTaskRejects(url, cron) == url = <<>> \/ cron = InvalidText

NewTaskId == Cardinality(ConfigIds) + added + 1

AddTask(urlText, option, hour, minute, width, height) ==
    LET url  == Strip(urlText)
        cron == get_cron_schedule(option, hour, minute)
        task == Task(NewTaskId, cron, TRUE)
    IN
    /\ UiReady
    /\ IF ~(PyIntOk(width) /\ PyIntOk(height))
       THEN \* int() raises ValueError out of the callback: nothing has changed
            UNCHANGED <<tasks, jobs, dialog, added, form>>
       ELSE IF AddTaskRejects(url, cron)
       THEN /\ dialog' = "error"
            /\ UNCHANGED <<tasks, jobs, added, form>>
       ELSE /\ added < MaxAdds
            /\ tasks' = ConfigAddTask(tasks, task)
            /\ jobs' = load_scheduled_tasks(tasks', jobs)
            /\ added' = added + 1
            /\ form' = clear_task_inputs
            /\ dialog' = "success"
    /\ UNCHANGED <<schedState, lock, thr, closePc, cfgCall>>

(***************************************************************************)
(* App.remove_task, bound to the Delete button of every listed task        *)
(***************************************************************************)
\* a remove_task that also aborts the removed task's captures and frees the lock
RemoveTaskCancelling(id) ==
    /\ UiReady
    /\ id \in TaskIds(tasks)
    /\ tasks' = ConfigRemoveTask(tasks, id)
    /\ jobs' = load_scheduled_tasks(tasks', jobs)
    /\ dialog' = "success"
    /\ thr' = [t \in { u \in Running : u.task.id # id } |-> thr[t]]
    /\ lock' = (lock /\ \E t \in DOMAIN thr' : t.pc \in {"capturing", "release"})
    /\ UNCHANGED <<schedState, added, closePc, form, cfgCall>>

RemoveTask(id) ==
    /\ UiReady
    /\ id \in TaskIds(tasks)
    /\ tasks' = ConfigRemoveTask(tasks, id)
    /\ jobs' = load_scheduled_tasks(tasks', jobs)
    /\ dialog' = "success"
    /\ UNCHANGED <<schedState, lock, thr, added, closePc, form, cfgCall>>

(***************************************************************************)
(* App.run_capture, bound to the Capture Now button of every listed task   *)
(***************************************************************************)
RunCapture(i) ==
    /\ UiReady
    /\ i \in 1..Len(tasks)
    /\ StartThread("manual", tasks[i])
    /\ UNCHANGED <<tasks, jobs, schedState, lock, dialog, added, closePc, form, cfgCall>>

(***************************************************************************)
(* The scheduler fires a job: the executor calls capture_wrapper on a      *)
(* worker thread, unless an instance of that job id is still running       *)
(* (max_instances=1).                                                      *)
(***************************************************************************)
InstanceRunning(id) == \E t \in Running : t.kind = "sched" /\ t.task.id = id

Fire(job) ==
    /\ schedState = "running"
    /\ job \in jobs
    /\ ~InstanceRunning(job.id)
    /\ StartThread("sched", job)
    /\ UNCHANGED <<tasks, jobs, schedState, lock, dialog, added, closePc, form, cfgCall>>

(***************************************************************************)
(* capture_wrapper and run_capture.capture: the same body, run by an       *)
(* executor worker or by the thread run_capture starts.                    *)
(***************************************************************************)
\* an acquire that succeeds whoever holds the lock
TryAcquireAlways(l) == TRUE

\* Lock.acquire(blocking=False): true exactly when the lock was free
TryAcquire(l) == ~l

\* acquired = self.capture._capture_lock.acquire(blocking=False)
Acquire(t) ==
    /\ t.pc = "acquire"
    /\ thr' = Replace(t, [t EXCEPT !.acquired = TryAcquire(lock),
                                   !.pc = IF TryAcquire(lock) THEN "capturing" ELSE "skipped"])
    /\ lock' = (lock \/ TryAcquire(lock))
    /\ UNCHANGED <<tasks, jobs, schedState, dialog, added, closePc, form, cfgCall>>

\* a refused attempt that is kept and tried again
SkipAndRetry(t) ==
    /\ t.pc = "skipped"
    /\ thr' = Replace(t, [t EXCEPT !.pc = "acquire"])
    /\ UNCHANGED <<tasks, jobs, schedState, lock, dialog, added, closePc, form, cfgCall>>

\* a refused attempt that runs the release of the "finally:" all the same
SkipReleasing(t) ==
    /\ t.pc = "skipped"
    /\ thr' = Returned(t)
    /\ lock' = FALSE
    /\ UNCHANGED <<tasks, jobs, schedState, dialog, added, closePc, form, cfgCall>>

\* if not acquired: print(...); return
Skip(t) ==
    /\ t.pc = "skipped"
    /\ thr' = Returned(t)
    /\ UNCHANGED <<tasks, jobs, schedState, lock, dialog, added, closePc, form, cfgCall>>

\* a release placed after the "try:" body instead of in "finally:"
AfterRaiseNoFinally == "done"

\* an exception inside "try:" unwinds through "finally:", which releases
AfterRaise == "release"

\* Inside "try:": the event loop runs capture_task to its end.  The capture
\* returns True, or False after catching an Exception; creating the loop or
\* a status_label call may raise instead.
Capture(t) ==
    /\ t.pc = "capturing"
    /\ \/ \E success \in BOOLEAN :
             thr' = Replace(t, [t EXCEPT !.pc = "release",
                                         !.outcome = IF success THEN "succeeded" ELSE "failed"])
       \/ thr' = Replace(t, [t EXCEPT !.pc = AfterRaise, !.outcome = "raised"])
    /\ UNCHANGED <<tasks, jobs, schedState, lock, dialog, added, closePc, form, cfgCall>>

\* finally: self.capture._capture_lock.release(), and the function returns
Release(t) ==
    /\ t.pc = "release"
    /\ lock' = FALSE
    /\ thr' = Returned(t)
    /\ UNCHANGED <<tasks, jobs, schedState, dialog, added, closePc, form, cfgCall>>

\* the executor has reported the run and frees the job's instance
Exit(t) ==
    /\ t.pc = "done"
    /\ thr' = thr (-) SetToBag({t})
    /\ UNCHANGED <<tasks, jobs, schedState, lock, dialog, added, closePc, form, cfgCall>>

ThreadStep(t) == Acquire(t) \/ Skip(t) \/ Capture(t) \/ Release(t) \/ Exit(t)

(***************************************************************************)
(* App.on_close.  scheduler.shutdown() stops the scheduler, then waits     *)
(* (wait=True is the default) until the executor's running jobs have       *)
(* returned, and empties the job store.  close_async() then passes the     *)
(* None that ScreenshotCapture.close() returns to run_until_complete,      *)
(* which raises TypeError, so super().destroy() is not reached.            *)
(* shutdown() on a stopped scheduler raises SchedulerNotRunningError.      *)
(***************************************************************************)
OnClose ==
    /\ UiReady
    /\ IF schedState = "running"
       THEN /\ schedState' = "stopped"
            /\ closePc' = "shutdown"
       ELSE /\ closePc' = "SchedulerNotRunningError"
            /\ UNCHANGED schedState
    /\ UNCHANGED <<tasks, jobs, lock, thr, dialog, added, form, cfgCall>>

\* the executor has a job that has not returned
ShutdownWaits == \E t \in Running : t.kind = "sched"

ShutdownReturns ==
    /\ closePc = "shutdown"
    /\ ~ShutdownWaits
    /\ jobs' = {}
    /\ closePc' = "TypeError"
    /\ UNCHANGED <<tasks, schedState, lock, thr, dialog, added, form, cfgCall>>

Next ==
    \/ \E u \in UrlInputs, o \in OptionInputs, h \in HourInputs, m \in MinuteInputs,
          w \in WidthInputs, g \in HeightInputs : AddTask(u, o, h, m, w, g)
    \/ \E id \in ConfigIds \cup NewIds : RemoveTask(id)
    \/ \E i \in 1..Len(tasks) : RunCapture(i)
    \/ \E job \in jobs : Fire(job)
    \/ \E t \in Running : ThreadStep(t)
    \/ OnClose
    \/ ShutdownReturns

Spec == Init /\ [][Next]_vars

\* every started thread is scheduled, and a capture always returns
FairSpec == Spec /\ WF_vars(\E t \in Running : ThreadStep(t))

(***************************************************************************)
(* The form on its own: the user picks values in the three menus and       *)
(* presses Add Task.  The hour and minute menus are on screen only while   *)
(* the option is "Custom".  The menus are explored before the first task   *)
(* is added: add_task puts them back to the state they start in, and no    *)
(* menu callback reads the stored tasks.                                   *)
(***************************************************************************)
FormInit ==
    /\ tasks = <<>>
    /\ jobs = {}
    /\ schedState = "running"
    /\ lock = FALSE
    /\ thr = EmptyBag
    /\ dialog = "none"
    /\ added = 0
    /\ closePc = "none"
    /\ form = InitialForm
    /\ cfgCall = NoCall

\* the command of schedule_option
on_schedule_change(option) ==
    /\ added = 0
    /\ form' = [form EXCEPT !.option = option,
                            !.preview = update_cron_preview(option, form.hour, form.minute)]
    /\ UNCHANGED <<tasks, jobs, schedState, lock, thr, dialog, added, closePc, cfgCall>>

\* the command of hour_spinbox
hour_spinbox_command(hour) ==
    /\ added = 0
    /\ form.option = "Custom"
    /\ form' = [form EXCEPT !.hour = hour,
                            !.preview = update_cron_preview(form.option, hour, form.minute)]
    /\ UNCHANGED <<tasks, jobs, schedState, lock, thr, dialog, added, closePc, cfgCall>>

\* the command of minute_spinbox
minute_spinbox_command(minute) ==
    /\ added = 0
    /\ form.option = "Custom"
    /\ form' = [form EXCEPT !.minute = minute,
                            !.preview = update_cron_preview(form.option, form.hour, minute)]
    /\ UNCHANGED <<tasks, jobs, schedState, lock, thr, dialog, added, closePc, cfgCall>>

\* add_task reads the menus
FormAddTask ==
    \E u \in UrlInputs, w \in WidthInputs, g \in HeightInputs :
        AddTask(u, form.option, form.hour, form.minute, w, g)

FormNext ==
    \/ \E o \in ScheduleOptions : on_schedule_change(o)
    \/ \E h \in HourValues : hour_spinbox_command(h)
    \/ \E m \in MinuteValues : minute_spinbox_command(m)
    \/ FormAddTask

FormSpec == FormInit /\ [][FormNext]_vars

(***************************************************************************)
(* ConfigManager on its own: add_task and remove_task called in any order  *)
(* with any id, ids that are stored twice and ids that are not stored      *)
(* included.  cfgCall keeps the call and the list it was made on.          *)
(***************************************************************************)
CfgTasks == { Task(id, EveryHourText, e) : id \in ConfigIds \cup NewIds, e \in BOOLEAN }

CfgInit ==
    /\ tasks = <<>>
    /\ jobs = {}
    /\ schedState = "running"
    /\ lock = FALSE
    /\ thr = EmptyBag
    /\ dialog = "none"
    /\ added = 0
    /\ closePc = "none"
    /\ form = InitialForm
    /\ cfgCall = NoCall

CfgAddTask(task) ==
    /\ Len(tasks) < MaxCfgLen
    /\ tasks' = ConfigAddTask(tasks, task)
    /\ cfgCall' = [op |-> "add_task", id |-> task.id, before |-> tasks]
    /\ UNCHANGED <<jobs, schedState, lock, thr, dialog, added, closePc, form>>

CfgRemoveTask(id) ==
    /\ tasks' = ConfigRemoveTask(tasks, id)
    /\ cfgCall' = [op |-> "remove_task", id |-> id, before |-> tasks]
    /\ UNCHANGED <<jobs, schedState, lock, thr, dialog, added, closePc, form>>

CfgNext ==
    \/ \E task \in CfgTasks : CfgAddTask(task)
    \/ \E id \in ConfigIds \cup NewIds : CfgRemoveTask(id)

CfgSpec == CfgInit /\ [][CfgNext]_vars

(***************************************************************************)
(* Properties.                                                             *)
(***************************************************************************)
\* thread t is between its successful acquire and its release
Holding(t) == t.acquired /\ t.pc \in {"capturing", "release"}

\* this step is a step of (one copy of) thread t
Steps(t) == CopiesIn(t, thr') < CopiesIn(t, thr)

\* C1: for every task, at most one attempt (scheduled or manual) is between a
\* successful acquire of the capture lock and its release.
C1_MutualExclusion ==
    \A t, u \in Running :
        (Holding(t) /\ Holding(u) /\ t.task.id = u.task.id) => (t = u /\ thr[t] = 1)

\* a scheduled and a manual attempt of one task met: one holds, the other was refused
C1_Witness ==
    \E t, u \in Running :
        /\ Holding(t)
        /\ u.pc = "skipped"
        /\ t.task.id = u.task.id
        /\ t.kind # u.kind

\* C2: an attempt is refused only while an attempt of the SAME task holds the
\* guard; a capture of another task never makes it skip.
C2_GuardPerJob ==
    [][ \A t \in Running :
          (t.pc = "acquire" /\ thr' = Replace(t, [t EXCEPT !.pc = "skipped"]))
             => \E u \in Running : Holding(u) /\ u.task.id = t.task.id ]_vars

\* C3: the scheduler holds no job whose task the configuration store does not list.
C3_NoJobWithoutTask == \A j \in jobs : j.id \in TaskIds(tasks)

\* C4: the lock is held only while some accepted attempt is still between its
\* acquire and its release (so once every accepted attempt has finished, by
\* success, failure or exception, the lock is idle), and an acquire attempted
\* while no attempt holds the lock succeeds.
C4_UnconditionalRelease ==
    /\ [](lock => \E t \in Running : Holding(t))
    /\ [][ \A t \in Running :
             (t.pc = "acquire" /\ Steps(t) /\ ~(\E u \in Running : Holding(u)))
                => /\ thr' = Replace(t, [t EXCEPT !.pc = "capturing", !.acquired = TRUE])
                   /\ lock' ]_vars

\* a scheduled attempt ended by an exception, and a later attempt holds the lock
C4_Witness ==
    \E t, u \in Running :
        /\ t.pc = "done" /\ t.acquired /\ t.outcome = "raised"
        /\ Holding(u)

\* thread u is new at its position after this step
Arrives(u) == CopiesIn(u, thr') > CopiesIn(u, thr)

\* C5: an acquire attempted while the lock is held returns at once with False;
\* the refused attempt starts no capture and only ends; an attempt is at its
\* acquire only as a newly started thread, and a capture starts only by the
\* successful acquire of such an attempt.
C5_SkipWithoutQueuing ==
    /\ [](\A t \in Running : t.pc = "acquire" => ENABLED Acquire(t))
    /\ [][ thr' # thr =>
           /\ \A t \in Running :
                /\ (t.pc = "acquire" /\ lock /\ Steps(t))
                      => /\ thr' = Replace(t, [t EXCEPT !.pc = "skipped"])
                         /\ ~t.acquired
                         /\ lock' = lock
                /\ (t.pc = "skipped" /\ Steps(t))
                      => /\ thr' \in { thr (-) SetToBag({t}),
                                       Replace(t, [t EXCEPT !.pc = "done"]) }
                         /\ lock' = lock
                /\ (t.pc = "done" /\ ~t.acquired /\ Steps(t))
                      => thr' = thr (-) SetToBag({t})
           /\ \A u \in BagToSet(thr') :
                /\ (u.pc = "acquire" /\ Arrives(u))
                      => thr' = thr (+) SetToBag({u})
                /\ (u.pc = "capturing" /\ Arrives(u))
                      => /\ ~lock
                         /\ thr' = Replace([u EXCEPT !.pc = "acquire", !.acquired = FALSE], u) ]_vars

\* a refused scheduled attempt has ended, the lock has been released since,
\* and no capture runs or is about to
C5_Witness ==
    /\ \E t \in Running : t.pc = "done" /\ ~t.acquired
    /\ ~lock
    /\ \A u \in Running : u.pc \notin {"acquire", "capturing", "release"}

\* C6: no capture is ever started for a task whose enabled flag is false.
C6_DisabledNeverDispatched ==
    \A t \in Running : Holding(t) => t.task.enabled

\* C7: a task whose cron expression does not parse is never created: every
\* task a step stores and every job a step registers parses, a call of
\* add_task that ends with the error dialog changes neither the stored list nor
\* the jobs, and a call that stores a task ends with the success dialog and
\* that task's job.
C7_MalformedCronRejected ==
    [][ /\ \A i \in 1..Len(tasks') :
              tasks'[i].id \notin TaskIds(tasks) => CronParses(tasks'[i].cron)
        /\ \A j \in jobs' \ jobs : CronParses(j.cron)
        /\ (dialog' = "error" /\ dialog' # dialog) => UNCHANGED <<tasks, jobs, added>>
        /\ Len(tasks') > Len(tasks)
              => /\ dialog' = "success"
                 /\ tasks'[Len(tasks')] \in jobs' ]_vars

\* add_task has refused a form whose URL is filled in (every URL explored is),
\* so for its "Invalid" schedule: nothing was stored and nothing scheduled
C7_Witness ==
    /\ dialog = "error"
    /\ added = 0
    /\ \A i \in 1..Len(tasks) : tasks[i].id \notin NewIds
    /\ \A j \in jobs : j.id \notin NewIds

\* the expressions section 4.1 accepts: exactly 5 tokens, each "*" or a
\* decimal integer inside its field's range
SimpleToken(tok, f) ==
    \/ tok = <<"*">>
    \/ AllDigits(tok) /\ DecVal(tok) >= FieldMin(f) /\ DecVal(tok) <= FieldMax(f)

SimpleCron(cron) ==
    LET parts == Split(cron) IN
    Len(parts) = 5 /\ \A f \in 1..5 : SimpleToken(parts[f], f)

\* C8: a job is registered only for an expression of exactly 5 tokens, each "*"
\* or an in-range decimal integer; lists, ranges, steps and names get no job.
C8_OnlySimpleCronScheduled == \A j \in jobs : SimpleCron(j.cron)

\* C9: an attempt that has started can always take its next step, whatever
\* has been removed, added or shut down meanwhile, and no step of
\* remove_task, add_task or on_close changes the lock or any capture thread.
C9_InFlightNotCancelled ==
    /\ [](\A t \in Running : ENABLED ThreadStep(t))
    /\ [][ (tasks' # tasks \/ jobs' # jobs \/ added' # added \/ dialog' # dialog
              \/ schedState' # schedState \/ closePc' # closePc)
             => (lock' = lock /\ thr' = thr) ]_vars

\* a capture is in flight, between acquire and release, in a state where its
\* task has been removed, a task has been added and the scheduler has been stopped
C9_Witness ==
    \E t \in Running :
        /\ Holding(t)
        /\ t.task.id \notin TaskIds(tasks)
        /\ added > 0
        /\ schedState = "stopped"

\* C10: scheduler.shutdown() can return whenever on_close is inside it, also
\* while a capture the scheduler started is still in flight.
C10_StopDoesNotWait == closePc = "shutdown" => ENABLED ShutdownReturns

\* C11: a close requested while the scheduler is already stopped is a no-op:
\* it never ends in the scheduler's "not running" error.
C11_StopIdempotent == closePc # "SchedulerNotRunningError"

\* C16: no invocation of on_close ends by an exception before the window is
\* destroyed.
C16_CloseCompletes == closePc \notin {"TypeError", "SchedulerNotRunningError"}

\* the guard the capture_wrapper of a job tries: every wrapper closes over the
\* one self.capture._capture_lock
GuardHeld(job) == lock

\* C12: when a step re-registers the jobs while a capture of a job's task is in
\* flight, the re-registered job has an idle guard afterwards.
C12_FreshGuardOnReplace ==
    [][ tasks' # tasks =>
          \A j \in load_scheduled_tasks(tasks', {}) :
              (\E t \in Running : Holding(t) /\ t.task.id = j.id) => ~GuardHeld(j)' ]_vars

\* The texts an attempt at position t can have put on status_label: capture_task
\* sets "Capturing" and then "Capture successful" or "Capture failed"; the
\* refusal is only printed; an exception ends the attempt before or after the
\* first text.
StatusEvents(t) ==
    CASE t.outcome = "succeeded" -> { <<"Capturing", "Capture successful">> }
      [] t.outcome = "failed" -> { <<"Capturing", "Capture failed">> }
      [] t.outcome = "raised" -> { <<>>, <<"Capturing">> }
      [] OTHER -> { <<>> }

\* C13: a refused attempt has put the skipped status, and nothing else, on the
\* status channel, and an accepted attempt whose capture_task has returned and
\* that is about to release the lock has put the started status and then
\* exactly one of succeeded and failed.
C13_StatusPerAttempt ==
    \A t \in Running :
        /\ t.pc = "skipped" => StatusEvents(t) = { <<"Capture skipped">> }
        /\ (t.pc = "release" /\ t.outcome # "raised")
              => StatusEvents(t) \subseteq { <<"Capturing", "Capture successful">>,
                                             <<"Capturing", "Capture failed">> }

\* C14: when run_capture returns, its attempt has been accepted or refused.
C14_RunNowReportsOutcome ==
    [][ \A u \in BagToSet(thr') :
          (u.kind = "manual" /\ thr' = thr (+) SetToBag({u}))
             => u.pc \in {"capturing", "skipped"} ]_vars

\* C17: only an attempt whose own acquire succeeded is at the release, one at
\* a time and with the lock held; the lock becomes free only by the step of
\* that attempt, which then returns; an attempt whose acquire failed never
\* frees the lock.
C17_NoReleaseWithoutHold ==
    /\ [](\A t \in Running :
             t.pc = "release"
                => /\ t.acquired /\ lock /\ thr[t] = 1
                   /\ \A u \in Running : u.pc = "release" => u = t)
    /\ [][ (lock /\ ~lock')
             => \E t \in Running :
                   t.pc = "release" /\ t.acquired /\ thr' = Returned(t) ]_vars

\* an attempt has acquired and released, and an attempt it made skip has not
\* returned yet: the lock is free
C17_Witness ==
    /\ ~lock
    /\ \E t, u \in Running :
          /\ t.pc = "done" /\ t.acquired
          /\ u.pc = "skipped" /\ ~u.acquired

\* C18: the scheduler holds at most one job per task id, and exactly one for
\* every enabled stored task whose expression has 5 fields.
C18_OneJobPerTask ==
    /\ \A j, k \in jobs : j.id = k.id => j = k
    /\ \A i \in 1..Len(tasks) :
          (tasks[i].enabled /\ Len(Split(tasks[i].cron)) = 5)
             => Cardinality({ j \in jobs : j.id = tasks[i].id }) = 1

\* the fields of a well-formed expression: "*" or one decimal integer in the
\* field's range, written without leading zeros
PlainToken(tok, f) ==
    \/ tok = <<"*">>
    \/ /\ AllDigits(tok)
       /\ (Len(tok) = 1 \/ tok[1] # "0")
       /\ DecVal(tok) >= FieldMin(f) /\ DecVal(tok) <= FieldMax(f)

\* exactly 5 such fields with one space between them
WellFormedCron(cron) ==
    LET parts == Split(cron) IN
    /\ Len(parts) = 5
    /\ \A f \in 1..5 : PlainToken(parts[f], f)
    /\ cron = parts[1] \o <<" ">> \o parts[2] \o <<" ">> \o parts[3] \o <<" ">>
                \o parts[4] \o <<" ">> \o parts[5]

\* C15: for the option and the hour and minute the menus show, get_cron_schedule
\* returns "Invalid" or a well-formed expression, and so is every expression
\* add_task has stored from it.
C15_GeneratedCronWellFormed ==
    /\ LET cron == get_cron_schedule(form.option, form.hour, form.minute) IN
       cron = InvalidText \/ WellFormedCron(cron)
    /\ \A i \in 1..Len(tasks) : WellFormedCron(tasks[i].cron)

\* the menus showed "Custom", hour "07" and minute "05", and add_task stored "5 7 * * *"
C15_Witness ==
    \E i \in 1..Len(tasks) : tasks[i].cron = <<"5"," ","7"," ","*"," ","*"," ","*">>

\* C20: the preview label always shows the expression get_cron_schedule returns
\* for the menus as they are, and the expression add_task stores is the one the
\* label showed when the button was pressed.
C20_PreviewMatchesStored ==
    /\ [](form.preview
            = PreviewPrefix \o get_cron_schedule(form.option, form.hour, form.minute))
    /\ [][ Len(tasks') > Len(tasks)
             => form.preview = PreviewPrefix \o tasks'[Len(tasks')].cron ]_vars

\* a task was stored from the menus at "Custom", "23", "59", and the menus and
\* the label are back at "Every Hour"
C20_Witness ==
    /\ added > 0
    /\ tasks[Len(tasks)].cron = <<"5","9"," ","2","3"," ","*"," ","*"," ","*">>
    /\ form.option = "Every Hour"
    /\ form.preview = PreviewPrefix \o EveryHourText

\* how many of the first p tasks of ts have an id other than id
Kept(ts, id, p) == Cardinality({ q \in 1..p : ts[q].id # id })

\* C19: after remove_task(id) the list holds exactly the tasks of the list
\* before whose id is not id, each unchanged and in the order they had; it is
\* the list before when no task had that id; and removing the id of a task
\* just added under a fresh id gives back the list before the add.
C19_RemoveTaskFrame ==
    /\ cfgCall.op = "remove_task" =>
          LET before == cfgCall.before
              id == cfgCall.id
          IN
          /\ Len(tasks) = Kept(before, id, Len(before))
          /\ \A p \in 1..Len(before) :
                before[p].id # id => tasks[Kept(before, id, p)] = before[p]
          /\ id \notin TaskIds(before) => tasks = before
    /\ (cfgCall.op = "add_task" /\ cfgCall.id \notin TaskIds(cfgCall.before))
          => ConfigRemoveTask(tasks, cfgCall.id) = cfgCall.before

\* remove_task took the middle one of three tasks and left the two different
\* tasks around it, in their order
C19_Witness ==
    /\ cfgCall.op = "remove_task"
    /\ Len(cfgCall.before) = 3
    /\ cfgCall.before[2].id = cfgCall.id
    /\ cfgCall.before[1].id # cfgCall.id
    /\ cfgCall.before[3].id # cfgCall.id
    /\ cfgCall.before[1] # cfgCall.before[3]
    /\ tasks = <<cfgCall.before[1], cfgCall.before[3]>>

=============================================================================
